---- MODULE Spec2Model ----
(***************************************************************************)
(* Aroya Air flight search and reservation tools (tools.py, utils.py,      *)
(* models.py) as a state machine.  The state is the flight dataset, the    *)
(* module-level reservation store _RESERVATIONS, the clock, and the last   *)
(* tool call together with what it returned.                               *)
(*                                                                         *)
(* Python values are represented as follows.                               *)
(*   str            a sequence of one-character strings                    *)
(*   Optional[x]    {} for None, {x} for a value                           *)
(*   date           a record [y, m, d]                                     *)
(*   a date string  a record tagged by its textual form (see DateText)     *)
(*   money          integer cents                                          *)
(***************************************************************************)
EXTENDS Integers, Sequences, FiniteSets, TLC

VARIABLES catalog, reservations, now, call, resp

vars == <<catalog, reservations, now, call, resp>>

\* ------------------------------------------------------------------ bounds
MaxFlights == 2
NumIds == 2

\* ------------------------------------------------------- Optional values
None == {}
Some(x) == {x}
Val(o) == CHOOSE x \in o : TRUE
\* Python truthiness of an Optional[str] and of an Optional[int]
TruthyStr(o) == o # None /\ Val(o) # <<>>
TruthyInt(o) == o # None /\ Val(o) # 0

\* ----------------------------------------------------------------- text
IsSpace(c) == c \in {" ", "\t"}

LowerChar(c) ==
  CASE c = "H" -> "h"
    [] c = "K" -> "k"
    [] c = "T" -> "t"
    [] c = "O" -> "o"
    [] c = "S" -> "s"
    [] OTHER -> c

Lower(s) == [i \in 1..Len(s) |-> LowerChar(s[i])]

RECURSIVE SplitFrom(_, _, _)
SplitFrom(s, i, cur) ==
  IF i > Len(s)
    THEN (IF cur = <<>> THEN <<>> ELSE <<cur>>)
    ELSE IF IsSpace(s[i])
      THEN (IF cur = <<>> THEN SplitFrom(s, i + 1, <<>>)
                          ELSE <<cur>> \o SplitFrom(s, i + 1, <<>>))
      ELSE SplitFrom(s, i + 1, Append(cur, s[i]))

Split(s) == SplitFrom(s, 1, <<>>)

RECURSIVE Join(_)
Join(ws) ==
  IF ws = <<>> THEN <<>>
  ELSE IF Len(ws) = 1 THEN ws[1]
  ELSE ws[1] \o <<" ">> \o Join(Tail(ws))

normalize(s) == Join(Split(Lower(s)))

\* code point order of the characters the model uses
Ord(c) ==
  CASE c = "\t" -> 9
    [] c = " " -> 32
    [] c = "H" -> 72
    [] c = "K" -> 75
    [] c = "O" -> 79
    [] c = "S" -> 83
    [] c = "T" -> 84
    [] c = "h" -> 104
    [] c = "k" -> 107
    [] c = "o" -> 111
    [] c = "s" -> 115
    [] c = "t" -> 116
    [] OTHER -> 0

RECURSIVE StrLess(_, _)
StrLess(a, b) ==
  IF b = <<>> THEN FALSE
  ELSE IF a = <<>> THEN TRUE
  ELSE IF Ord(Head(a)) # Ord(Head(b)) THEN Ord(Head(a)) < Ord(Head(b))
  ELSE StrLess(Tail(a), Tail(b))

\* ---------------------------------------------------------------- dates
Date(y, m, d) == [y |-> y, m |-> m, d |-> d]

IsLeap(y) == (y % 4 = 0 /\ y % 100 # 0) \/ y % 400 = 0

DaysIn(y, m) ==
  IF m = 2 THEN (IF IsLeap(y) THEN 29 ELSE 28)
  ELSE IF m \in {4, 6, 9, 11} THEN 30 ELSE 31

ValidDate(y, m, d) == m \in 1..12 /\ d \in 1..DaysIn(y, m)

DateLess(a, b) ==
  \/ a.y < b.y
  \/ a.y = b.y /\ a.m < b.m
  \/ a.y = b.y /\ a.m = b.m /\ a.d < b.d

AddDay(t) ==
  IF t.d < DaysIn(t.y, t.m) THEN Date(t.y, t.m, t.d + 1)
  ELSE IF t.m < 12 THEN Date(t.y, t.m + 1, 1)
  ELSE Date(t.y + 1, 1, 1)

(* Date strings, by textual form:                                          *)
(*   "ymd"   YYYY-MM-DD               (a, b, c) = (year, month, day)       *)
(*   "iso_z" YYYY-MM-DDThh:mm:ssZ     (a, b, c) = (year, month, day)       *)
(*   "abY"   NN-NN-YYYY               (a, b, c) = (first, second, year)    *)
(*   "word"  a word w: "today", "tomorrow" or anything else                *)
(*   "empty" the empty string                                              *)
DateText(k, a, b, c) == [k |-> k, a |-> a, b |-> b, c |-> c, w |-> ""]
WordText(w) == [k |-> "word", a |-> 0, b |-> 0, c |-> 0, w |-> w]
IsoText(t) == DateText("ymd", t.y, t.m, t.d)
EmptyText == DateText("empty", 0, 0, 0)
IsEmptyText(s) == s.k = "empty"

\* datetime.fromisoformat on the string
FromIsoFormat(s) ==
  IF s.k \in {"ymd", "iso_z"} /\ ValidDate(s.a, s.b, s.c)
    THEN Some(Date(s.a, s.b, s.c)) ELSE None

parse_date_flexible(s, today) ==
  IF s.k = "empty" THEN None
  ELSE IF s.k = "word" /\ s.w = "today" THEN Some(today)
  ELSE IF s.k = "word" /\ s.w = "tomorrow" THEN Some(AddDay(today))
  \* utils.py 65-70, on a Python whose fromisoformat reads a trailing Z
  ELSE IF s.k \in {"ymd", "iso_z"} THEN FromIsoFormat(s)
  \* utils.py 73-80: %d-%m-%Y is tried before %m-%d-%Y
  ELSE IF s.k = "abY" /\ ValidDate(s.c, s.b, s.a) THEN Some(Date(s.c, s.b, s.a))
  ELSE IF s.k = "abY" /\ ValidDate(s.c, s.a, s.b) THEN Some(Date(s.c, s.a, s.b))
  ELSE None

\* raw: Optional date string; result: Optional ISO date string
coerce_date_to_iso(raw, today) ==
  IF raw = None THEN None
  ELSE LET s == Val(raw)
           iso == FromIsoFormat(s)
       IN IF iso # None THEN Some(IsoText(Val(iso)))
          ELSE LET parsed == parse_date_flexible(s, today)
               IN IF parsed # None THEN Some(IsoText(Val(parsed))) ELSE None

\* pydantic's reading of an ISO date string into a date field
ParseDateField(s) == Date(s.a, s.b, s.c)

\* --------------------------------------------------------------- models
OnTime == "On Time"
Delayed == "Delayed"
Cancelled == "Cancelled"
Landed == "Landed"

Economy == "Economy"
Business == "Business"
First == "First"
SeatClasses == {Economy, Business, First}

\* CLASS_MULTIPLIER, in hundredths
ClassMultiplier(c) ==
  CASE c = Economy -> 100
    [] c = Business -> 160
    [] c = First -> 225
    [] OTHER -> 100

Flight(id, dep, arr, day, classes, price, seats, status) ==
  [flight_id |-> id, departure_city |-> dep, arrival_city |-> arr,
   departure_date |-> day, available_classes |-> classes,
   price_usd |-> price, seats_available |-> seats, status |-> status]

InSeq(x, s) == \E i \in 1..Len(s) : s[i] = x

\* round(x, 2) of num/den cents, ties to even
RoundCents(num, den) ==
  LET q == num \div den
      r == num % den
  IN IF 2 * r < den THEN q
     ELSE IF 2 * r > den THEN q + 1
     ELSE IF q % 2 = 0 THEN q ELSE q + 1

derived_class_prices(f) ==
  [i \in 1..Len(f.available_classes) |->
     <<f.available_classes[i],
       RoundCents(f.price_usd * ClassMultiplier(f.available_classes[i]), 100)>>]

to_public(f) ==
  [flight_id |-> f.flight_id,
   from_city |-> f.departure_city,
   to_city |-> f.arrival_city,
   departure_date |-> IsoText(f.departure_date),
   available_classes |-> f.available_classes,
   prices_usd |-> derived_class_prices(f),
   base_price_usd |-> f.price_usd,
   seats_available |-> f.seats_available,
   status |-> f.status]

\* SearchCriteria(**crit): None when pydantic rejects the fields
SearchPaxMin == 1
SearchPaxMax == 9

SearchCriteria(dep, arr, iso, pax, cls) ==
  IF pax < SearchPaxMin \/ pax > SearchPaxMax THEN None
  ELSE IF cls # None /\ Val(cls) \notin SeatClasses THEN None
  ELSE Some([departure_city |-> dep, arrival_city |-> arr,
             departure_date |-> IF iso = None THEN None
                                ELSE Some(ParseDateField(Val(iso))),
             passengers |-> pax, class_preference |-> cls])

\* ---------------------------------------------------------------- utils
\* mutant: only Cancelled flights are unbookable
is_bookable_landed(f) == f.status # Cancelled

is_bookable(f) == f.status \notin {Cancelled, Landed}

matches_cities(f, c) ==
  IF TruthyStr(c.departure_city)
     /\ normalize(f.departure_city) # normalize(Val(c.departure_city))
    THEN FALSE
  ELSE IF TruthyStr(c.arrival_city)
     /\ normalize(f.arrival_city) # normalize(Val(c.arrival_city))
    THEN FALSE
  ELSE TRUE

matches_date(f, d) == IF d = None THEN TRUE ELSE f.departure_date = Val(d)

\* the sort key of get_available_flights: (price_usd, -seats_available)
KeyLess(a, b) ==
  \/ a.price_usd < b.price_usd
  \/ a.price_usd = b.price_usd /\ a.seats_available > b.seats_available

RECURSIVE InsertByKey(_, _)
InsertByKey(x, s) ==
  IF s = <<>> THEN <<x>>
  ELSE IF KeyLess(x, Head(s)) THEN <<x>> \o s
  ELSE <<Head(s)>> \o InsertByKey(x, Tail(s))

\* sorted(s, key=...): stable
RECURSIVE SortedByKey(_)
SortedByKey(s) ==
  IF s = <<>> THEN <<>>
  ELSE InsertByKey(Head(s), SortedByKey(Tail(s)))

\* sorted(S) of a set of str
RECURSIVE SortedStrs(_)
SortedStrs(S) ==
  IF S = {} THEN <<>>
  ELSE LET m == CHOOSE x \in S : \A y \in S : ~StrLess(y, x)
       IN <<m>> \o SortedStrs(S \ {m})

\* sorted(S) of a set of ISO date strings
RECURSIVE SortedDates(_)
SortedDates(S) ==
  IF S = {} THEN <<>>
  ELSE LET m == CHOOSE x \in S : \A y \in S : ~DateLess(y, x)
       IN <<IsoText(m)>> \o SortedDates(S \ {m})

\* mutant: the facets are taken over the bookable flights only
facets_for_bookable(flights, c) ==
  LET hit == {i \in 1..Len(flights) :
                /\ is_bookable(flights[i])
                /\ ~(TruthyStr(c.departure_city)
                     /\ normalize(flights[i].departure_city)
                          # normalize(Val(c.departure_city)))
                /\ ~(TruthyStr(c.arrival_city)
                     /\ normalize(flights[i].arrival_city)
                          # normalize(Val(c.arrival_city)))}
      dests == {flights[i].arrival_city : i \in hit}
      dates == {flights[i].departure_date : i \in hit}
  IN [available_destinations |-> SortedStrs(dests),
      available_dates |-> SortedDates(dates)]

\* mutant: the facets are taken over the flights of the requested date
facets_for_dated(flights, c) ==
  LET hit == {i \in 1..Len(flights) :
                /\ matches_cities(flights[i], c)
                /\ matches_date(flights[i], c.departure_date)}
      dests == {flights[i].arrival_city : i \in hit}
      dates == {flights[i].departure_date : i \in hit}
  IN [available_destinations |-> SortedStrs(dests),
      available_dates |-> SortedDates(dates)]

facets_for(flights, c) ==
  LET hit == {i \in 1..Len(flights) :
                /\ ~(TruthyStr(c.departure_city)
                     /\ normalize(flights[i].departure_city)
                          # normalize(Val(c.departure_city)))
                /\ ~(TruthyStr(c.arrival_city)
                     /\ normalize(flights[i].arrival_city)
                          # normalize(Val(c.arrival_city)))}
      dests == {flights[i].arrival_city : i \in hit}
      dates == {flights[i].departure_date : i \in hit}
  IN [available_destinations |-> SortedStrs(dests),
      available_dates |-> SortedDates(dates)]

\* ---------------------------------------------------------------- tools
\* Python's `a or b` on Optional date strings
OrText(a, b) == IF a # None /\ ~IsEmptyText(Val(a)) THEN a ELSE b

SearchArgs(dep, arr, ddate, pax, cls, date, tdate) ==
  [departure_city |-> dep, arrival_city |-> arr, departure_date |-> ddate,
   passengers |-> pax, class_preference |-> cls, date |-> date,
   travel_date |-> tdate]

\* mutant: the route filter checks the departure city only
StrictFilter_deponly(flights, c) ==
  SelectSeq(flights, LAMBDA f :
    /\ normalize(f.departure_city) = normalize(Val(c.departure_city))
    /\ is_bookable(f)
    /\ f.seats_available >= c.passengers
    /\ (c.class_preference = None
        \/ InSeq(Val(c.class_preference), f.available_classes)))

\* tools.py 128-135: the strict route filter, both cities present
StrictFilter(flights, c) ==
  SelectSeq(flights, LAMBDA f :
    /\ normalize(f.departure_city) = normalize(Val(c.departure_city))
    /\ normalize(f.arrival_city) = normalize(Val(c.arrival_city))
    /\ is_bookable(f)
    /\ f.seats_available >= c.passengers
    /\ (c.class_preference = None
        \/ InSeq(Val(c.class_preference), f.available_classes)))

\* tools.py 137-143: the exploration filter
ExploreFilter(flights, c) ==
  SelectSeq(flights, LAMBDA f :
    /\ matches_cities(f, c)
    /\ is_bookable(f)
    /\ f.seats_available >= c.passengers
    /\ (c.class_preference = None
        \/ InSeq(Val(c.class_preference), f.available_classes)))

Needs(c) ==
  (IF ~TruthyStr(c.departure_city) THEN <<"departure_city">> ELSE <<>>)
  \o (IF TruthyStr(c.departure_city) /\ ~TruthyStr(c.arrival_city)
        THEN <<"arrival_city">> ELSE <<>>)
  \o (IF TruthyStr(c.departure_city) /\ TruthyStr(c.arrival_city)
         /\ c.departure_date = None
        THEN <<"departure_date">> ELSE <<>>)

\* mutant: an empty strict result is reported as exploration
SearchCode_explore(c, public) ==
  IF TruthyStr(c.departure_city) /\ TruthyStr(c.arrival_city) /\ public # <<>>
    THEN "FLIGHT_SEARCH_OK"
    ELSE "FLIGHT_SEARCH_EXPLORE"

\* tools.py 160-170
SearchCode(c, public) ==
  IF TruthyStr(c.departure_city) /\ TruthyStr(c.arrival_city)
    THEN (IF public # <<>> THEN "FLIGHT_SEARCH_OK"
                           ELSE "FLIGHT_SEARCH_PARTIAL_OK")
    ELSE "FLIGHT_SEARCH_EXPLORE"

SearchEnvelope(ok, code, criteria, flights, facets, needs) ==
  [op |-> "search", raised |-> FALSE, ok |-> ok, code |-> code,
   criteria |-> criteria, flights |-> flights, facets |-> facets,
   needs |-> needs]

NoFacets == [available_destinations |-> <<>>, available_dates |-> <<>>]

get_available_flights(flights, today, a) ==
  LET raw_date == OrText(OrText(a.departure_date, a.travel_date), a.date)
      parsed_iso == coerce_date_to_iso(raw_date, today)
      pax == IF TruthyInt(a.passengers) THEN Val(a.passengers) ELSE 1
      crit == SearchCriteria(a.departure_city, a.arrival_city, parsed_iso,
                             pax, a.class_preference)
  IN IF crit = None
       THEN SearchEnvelope(FALSE, "FLIGHT_SEARCH_INVALID_INPUT", None, <<>>,
                           NoFacets, <<>>)
       ELSE
         LET c == Val(crit)
             filtered_city ==
               IF TruthyStr(c.departure_city) /\ TruthyStr(c.arrival_city)
                 THEN StrictFilter(flights, c)
                 ELSE ExploreFilter(flights, c)
             filtered ==
               SelectSeq(filtered_city, LAMBDA f : matches_date(f, c.departure_date))
             results == SortedByKey(filtered)
             public == [i \in 1..Len(results) |-> to_public(results[i])]
         IN SearchEnvelope(TRUE, SearchCode(c, public), crit, public,
                           facets_for(flights, c), Needs(c))

\* --------------------------------------------------- passengers (models)
Genders == {"Male", "Female", "Other"}
NameMinLen == 2
NameMaxLen == 80
AgeMin == 0
AgeMax == 120

\* the addresses EmailStr accepts, among those the model uses
ValidEmails == {"al@x.co", "bo@x.co"}

\* A passenger entry of the request: a key/value object with the five
\* optional keys, or something that is not an object (dict = FALSE).
Entry(name, age, gender, dob, email) ==
  [dict |-> TRUE, name |-> name, age |-> age, gender |-> gender,
   dob |-> dob, email |-> email]
EmptyEntry == Entry(None, None, None, None, None)
NonDictEntry == [EmptyEntry EXCEPT !.dict = FALSE]

\* Passenger(...): None when pydantic rejects the fields
Passenger(name, age, gender, dob, email) ==
  IF /\ Len(name) >= NameMinLen /\ Len(name) <= NameMaxLen
     /\ age >= AgeMin /\ age <= AgeMax
     /\ gender \in Genders
     /\ FromIsoFormat(dob) # None /\ dob.k = "ymd"
     /\ email \in ValidEmails
    THEN Some([name |-> name, age |-> age, gender |-> gender,
               dob |-> ParseDateField(dob), email |-> email])
    ELSE None

Max(a, b) == IF a >= b THEN a ELSE b
Abs(x) == IF x >= 0 THEN x ELSE 0 - x

approx_age_from_dob(dob, today) ==
  LET before == \/ today.m < dob.m
                \/ today.m = dob.m /\ today.d < dob.d
      years == today.y - dob.y - (IF before THEN 1 ELSE 0)
  IN Max(0, years)

validate_passenger_age_vs_dob(p, today) ==
  LET calc_age == approx_age_from_dob(p.dob, today)
  IN <<Abs(calc_age - p.age) <= 1, calc_age>>

\* ------------------------------------------------- reservations (tools)
find_flight_by_id(flights, flight_id) ==
  IF \E i \in 1..Len(flights) : flights[i].flight_id = flight_id
    THEN LET i == CHOOSE j \in 1..Len(flights) :
                    /\ flights[j].flight_id = flight_id
                    /\ \A k \in 1..(j - 1) : flights[k].flight_id # flight_id
         IN Some(flights[i])
    ELSE None

\* passengers_json, by what json.loads makes of it:
\*   "empty" the empty string, "bad" not JSON, "object" JSON but not an
\*   array, "array" an array of the given items
JsonText(k, items) == [k |-> k, items |-> items]

\* flat: the single-passenger fields as one entry, None when none of them
\* is truthy (tools.py 81)
parse_passengers(passenger_count, passengers, passengers_json, flat) ==
  LET use_list == passengers # None /\ Val(passengers) # <<>>
      use_json == ~use_list /\ passengers_json # None
                  /\ Val(passengers_json).k # "empty"
      use_flat == ~use_list /\ ~use_json /\ flat # None
      plist == IF use_list THEN Val(passengers)
               ELSE IF use_json /\ Val(passengers_json).k = "array"
                 THEN Val(passengers_json).items
               ELSE IF use_flat THEN <<Val(flat)>>
               ELSE <<>>
      errors == IF use_json /\ Val(passengers_json).k = "object"
                  THEN <<"passengers_json must be a JSON array.">>
                ELSE IF use_json /\ Val(passengers_json).k = "bad"
                  THEN <<"Invalid passengers_json">>
                ELSE <<>>
      inferred_count == IF passenger_count # None /\ Val(passenger_count) > 0
                          THEN Val(passenger_count)
                        ELSE IF plist # <<>> THEN Len(plist) ELSE 1
  IN [passenger_dicts |-> plist, count |-> inferred_count, errors |-> errors]

Issue(idx, field) == [index |-> idx, field |-> field]

\* tools.py 250-255
MissingFields(e, idx) ==
  (IF e.name = None \/ Val(e.name) = <<>> THEN <<Issue(idx, "name")>> ELSE <<>>)
  \o (IF e.age = None THEN <<Issue(idx, "age")>> ELSE <<>>)
  \o (IF e.gender = None \/ Val(e.gender) = "" THEN <<Issue(idx, "gender")>> ELSE <<>>)
  \o (IF e.dob = None \/ IsEmptyText(Val(e.dob)) THEN <<Issue(idx, "dob")>> ELSE <<>>)
  \o (IF e.email = None \/ Val(e.email) = "" THEN <<Issue(idx, "email")>> ELSE <<>>)

\* tools.py 243-275: one pass of the loop, for a key/value entry
ValidateSlot(e, idx, today) ==
  LET missing == MissingFields(e, idx)
  IN IF missing # <<>> THEN [issues |-> missing, validated |-> <<>>]
     ELSE LET dob_iso == coerce_date_to_iso(e.dob, today)
              dob == IF dob_iso # None THEN Val(dob_iso) ELSE Val(e.dob)
              p_obj == Passenger(Val(e.name), Val(e.age), Val(e.gender), dob,
                                 Val(e.email))
          IN IF p_obj = None
               THEN [issues |-> <<Issue(idx, "passenger")>>, validated |-> <<>>]
               ELSE [issues |->
                       IF validate_passenger_age_vs_dob(Val(p_obj), today)[1]
                         THEN <<>> ELSE <<Issue(idx, "age")>>,
                     validated |-> <<Val(p_obj)>>]

Accumulate(acc, one) ==
  [issues |-> acc.issues \o one.issues,
   validated |-> acc.validated \o one.validated,
   raised |-> FALSE]

\* tools.py 242-275: the loop over the slots idx .. n-1 (0-based) of
\* raw_list; entry.get raises on an entry that is not a key/value object
RECURSIVE ValidateFrom(_, _, _, _, _)
ValidateFrom(raw_list, idx, n, today, acc) ==
  IF idx >= n THEN acc
  ELSE LET entry == IF idx < Len(raw_list) THEN raw_list[idx + 1] ELSE EmptyEntry
       IN IF ~entry.dict
            THEN [acc EXCEPT !.raised = TRUE]
            ELSE ValidateFrom(raw_list, idx + 1, n, today,
                              Accumulate(acc, ValidateSlot(entry, idx, today)))

NothingValidated == [issues |-> <<>>, validated |-> <<>>, raised |-> FALSE]

\* mutant: the unit price is cut off after the cents instead of rounded
unit_price_for_class_floor(f, seat_class) ==
  (f.price_usd * ClassMultiplier(seat_class)) \div 100

unit_price_for_class(f, seat_class) ==
  RoundCents(f.price_usd * ClassMultiplier(seat_class), 100)

CreateArgs(flight_id, seat_class, confirm, passenger_count, passengers, passengers_json, flat) ==
  [flight_id |-> flight_id, seat_class |-> seat_class, confirm |-> confirm,
   passenger_count |-> passenger_count, passengers |-> passengers,
   passengers_json |-> passengers_json, flat |-> flat]

\* what a call of create_reservation returns; the fields a code does not
\* carry keep the values given here
NoReply ==
  [op |-> "create", raised |-> FALSE, ok |-> FALSE, code |-> "",
   flight |-> None, passenger_count |-> 0, passengers |-> <<>>,
   pending_entries |-> <<>>, issues |-> <<>>, parse_errors |-> <<>>,
   validation_ok |-> FALSE, provided_valid |-> 0, bill |-> None,
   next_action |-> "", reservation |-> None]

\* the call ended in an exception instead of an envelope
Raised == [NoReply EXCEPT !.raised = TRUE, !.code = "AttributeError"]

\* mutant: the seat check comes first
StructuralCode_seatsfirst(f_opt, seat_class, pax_count) ==
  IF f_opt = None THEN "RESERVATION_FLIGHT_NOT_FOUND"
  ELSE IF Val(f_opt).seats_available < pax_count THEN "RESERVATION_NO_SEATS"
  ELSE IF ~is_bookable(Val(f_opt)) THEN "RESERVATION_UNBOOKABLE"
  ELSE IF ~InSeq(seat_class, Val(f_opt).available_classes)
    THEN "RESERVATION_CLASS_NOT_AVAILABLE"
  ELSE ""

\* tools.py 204-232: the code of the first structural check that fails
StructuralCode(f_opt, seat_class, pax_count) ==
  IF f_opt = None THEN "RESERVATION_FLIGHT_NOT_FOUND"
  ELSE IF ~is_bookable(Val(f_opt)) THEN "RESERVATION_UNBOOKABLE"
  ELSE IF ~InSeq(seat_class, Val(f_opt).available_classes)
    THEN "RESERVATION_CLASS_NOT_AVAILABLE"
  ELSE IF Val(f_opt).seats_available < pax_count THEN "RESERVATION_NO_SEATS"
  ELSE ""

Bill(unit_price, pax_count) ==
  [unit_price |-> unit_price, passengers |-> Max(1, pax_count),
   subtotal |-> unit_price * Max(1, pax_count),
   total |-> unit_price * Max(1, pax_count)]

\* mutant: a commit requires only that the passenger input was readable
MayCommit_parseonly(issues, parse_errors, validated, pax_count) ==
  parse_errors = <<>>

\* tools.py 306: what a commit requires
MayCommit(issues, parse_errors, validated, pax_count) ==
  issues = <<>> /\ parse_errors = <<>> /\ Len(validated) = pax_count

\* mutant: the store is written before the confirm flag is looked at
StoreAfter_preview(store, rid, reservation, confirm) ==
  [i \in DOMAIN store \cup {rid} |->
     IF i = rid THEN reservation ELSE store[i]]

\* tools.py 289, 326: _RESERVATIONS[reservation_id] = reservation, on the
\* confirm path only
StoreAfter(store, rid, reservation, confirm) ==
  IF confirm
    THEN [i \in DOMAIN store \cup {rid} |->
            IF i = rid THEN reservation ELSE store[i]]
    ELSE store

\* tools.py 277-331: pricing, preview, confirm
Reply(f, a, pax_count, parse_errors, raw_list, v, store, today, rid) ==
  LET bill == Bill(unit_price_for_class(f, a.seat_class), pax_count)
      clean == v.issues = <<>> /\ parse_errors = <<>>
      reservation ==
        [reservation_id |-> rid, flight_id |-> f.flight_id,
         passengers |-> v.validated, passenger_count |-> pax_count,
         seat_class |-> a.seat_class, total_price_usd |-> bill.total,
         booked_at |-> today, flight_details |-> f]
  IN IF v.raised THEN [resp |-> Raised, store |-> store]
     ELSE IF ~a.confirm
       THEN [resp |-> [NoReply EXCEPT
                         !.ok = TRUE, !.code = "RESERVATION_PREVIEW",
                         !.flight = Some(to_public(f)),
                         !.passenger_count = pax_count,
                         !.passengers = v.validated,
                         !.pending_entries = raw_list,
                         !.issues = v.issues,
                         !.parse_errors = parse_errors,
                         !.validation_ok = clean,
                         !.bill = Some(bill),
                         !.next_action =
                            IF clean THEN "ask_confirmation"
                            ELSE "collect_missing_passenger_details"],
             store |-> StoreAfter(store, rid, reservation, FALSE)]
     ELSE IF ~MayCommit(v.issues, parse_errors, v.validated, pax_count)
       THEN [resp |-> [NoReply EXCEPT
                         !.code = "RESERVATION_VALIDATION_FAILED",
                         !.passenger_count = pax_count,
                         !.provided_valid = Len(v.validated),
                         !.issues = v.issues,
                         !.parse_errors = parse_errors],
             store |-> store]
     ELSE [resp |-> [NoReply EXCEPT
                       !.ok = TRUE, !.code = "RESERVATION_CONFIRMED",
                       !.reservation = Some(reservation),
                       !.bill = Some(bill)],
           store |-> StoreAfter(store, rid, reservation, TRUE)]

\* tools.py 239-240: a count without entries is padded with empty entries
RawList(plist, pax_count) ==
  IF plist = <<>> /\ pax_count > 0
    THEN [i \in 1..pax_count |-> EmptyEntry] ELSE plist

\* rid: the value gen_reservation_id draws for this call.
\* Returns the reply and the store after the call.
create_reservation(flights, store, today, rid, a) ==
  LET f_opt == find_flight_by_id(flights, a.flight_id)
      parsed == parse_passengers(a.passenger_count, a.passengers,
                                 a.passengers_json, a.flat)
      failed == StructuralCode(f_opt, a.seat_class, parsed.count)
  IN IF failed # ""
       THEN [resp |-> [NoReply EXCEPT
                         !.code = failed,
                         !.flight = IF f_opt = None \/ failed = "RESERVATION_CLASS_NOT_AVAILABLE"
                                      THEN None ELSE Some(to_public(Val(f_opt))),
                         !.passenger_count =
                            IF failed = "RESERVATION_NO_SEATS" THEN parsed.count ELSE 0],
             store |-> store]
       ELSE
         LET raw_list == RawList(parsed.passenger_dicts, parsed.count)
         IN Reply(Val(f_opt), a, parsed.count, parsed.errors, raw_list,
                  ValidateFrom(raw_list, 0, Max(parsed.count, Len(raw_list)),
                               today, NothingValidated),
                  store, today, rid)

\* mutant: a commit takes the booked seats off the dataset
DatasetAfter_decrement(flights, r) ==
  IF r.code = "RESERVATION_CONFIRMED"
    THEN [i \in 1..Len(flights) |->
            IF flights[i].flight_id = Val(r.reservation).flight_id
              THEN [flights[i] EXCEPT
                      !.seats_available = @ - Val(r.reservation).passenger_count]
              ELSE flights[i]]
    ELSE flights

\* tools.py 203-326: create_reservation loads the dataset and never writes it
DatasetAfter(flights, r) == flights

\* ------------------------------------------------------- data and inputs
HK == <<"H", " ", "k">>
HKspaced == <<" ", "h", "\t", " ", "K">>
Hk == <<"H", "k">>
TO == <<"T", "o">>
TOupper == <<"t", "O", " ">>
OS == <<"O", "s">>

D1 == Date(2026, 7, 3)
D2 == Date(2026, 7, 13)
\* the instants of the clock the model uses (utils.now_utc)
T1 == Date(2026, 7, 2)
T2 == Date(2028, 7, 12)
Times == {T1, T2}

\* the rows a dataset is made of (ACTIVE_DATASET["flights"])
FlightPool ==
  { Flight("F1", HK, TO, D1, <<Economy, Business>>, 10000, 2, OnTime),
    Flight("F2", TO, HK, D1, <<Economy>>, 8000, 1, Delayed),
    Flight("F3", HKspaced, TOupper, D2, <<Economy, First>>, 10000, 3, OnTime),
    Flight("F4", HK, TO, D2, <<Economy, Business>>, 9000, 2, Cancelled),
    Flight("F5", HK, OS, D1, <<Business>>, 12000, 1, Landed),
    Flight("F1", Hk, TO, D1, <<First>>, 10000, 1, OnTime) }

SeqsUpTo(S, n) == UNION {[1..k -> S] : k \in 0..n}

Catalogs == SeqsUpTo(FlightPool, MaxFlights)

DepartureInputs == {None, Some(<<>>), Some(<<"h", " ", " ", "k", " ">>), Some(TO)}
ArrivalInputs == {None, Some(TO), Some(HK), Some(<<" ">>)}

\* (departure_date, travel_date, date)
DateInputs ==
  { <<None, None, None>>,
    <<Some(IsoText(D1)), None, None>>,
    <<None, Some(DateText("abY", 7, 13, 2026)), None>>,
    <<Some(EmptyText), None, Some(WordText("tomorrow"))>>,
    <<Some(WordText("soon")), Some(IsoText(D1)), None>>,
    <<None, None, Some(DateText("iso_z", 2026, 7, 13))>> }

SearchPaxInputs == {None, Some(0), Some(2), Some(3), Some(10)}
ClassInputs == {None, Some(Economy), Some(First), Some("Premium")}

SearchCalls ==
  { [op |-> "search",
     args |-> SearchArgs(dep, arr, dt[1], pax, cls, dt[3], dt[2])] :
      dep \in DepartureInputs, arr \in ArrivalInputs, dt \in DateInputs,
      pax \in SearchPaxInputs, cls \in ClassInputs }

NoCall == [op |-> "none"]
Pending == [op |-> "pending"]

\* ----------------------------------------------------------- the machine
\* The search tool reads the dataset and the clock and writes nothing: its
\* specification draws the dataset, the clock and the arguments, and applies
\* the tool to them.
SearchInit ==
  /\ catalog \in Catalogs
  /\ reservations = <<>>
  /\ now \in Times
  /\ call \in SearchCalls
  /\ resp = Pending

GetAvailableFlights ==
  /\ call.op = "search"
  /\ resp = Pending
  /\ resp' = get_available_flights(catalog, now, call.args)
  /\ UNCHANGED <<catalog, reservations, now, call>>

SearchNext == GetAvailableFlights

SearchSpec == SearchInit /\ [][SearchNext]_vars

\* the dataset the booking machine runs on
Dataset ==
  << Flight("F1", HK, TO, D1, <<Economy, Business>>, 9998, 2, OnTime),
     Flight("F2", TO, HK, D1, <<Economy>>, 8000, 1, Delayed),
     Flight("F3", HKspaced, TOupper, D2, <<Economy, First>>, 10001, 3, OnTime),
     Flight("F4", HK, TO, D2, <<Economy, Business>>, 9000, 2, Cancelled),
     Flight("F5", HK, OS, D1, <<Business>>, 12000, 1, Landed),
     Flight("F1", Hk, TO, D1, <<First>>, 10000, 1, OnTime) >>

Al == <<"A", "l">>
Bo == <<"B", "o">>
EOk == Entry(Some(Al), Some(37), Some("Male"), Some(DateText("ymd", 1990, 1, 1)),
             Some("al@x.co"))
\* 36 on T1, two years off on T2
EYoung == Entry(Some(Bo), Some(36), Some("Female"),
                Some(DateText("abY", 1, 2, 1990)), Some("bo@x.co"))
ENoName == [EOk EXCEPT !.name = Some(<<>>)]
ENoEmail == [EOk EXCEPT !.email = None]
EBadGender == [EOk EXCEPT !.gender = Some("X")]
EAgeMismatch == [EOk EXCEPT !.age = Some(20)]

\* (passenger_count, passengers, passengers_json, flattened fields)
PassengerInputs ==
  { <<None, Some(<<EOk>>), None, None>>,
    <<None, Some(<<EOk, EYoung>>), None, None>>,
    <<Some(1), Some(<<EOk, EOk>>), None, None>>,
    <<Some(2), Some(<<EOk>>), None, None>>,
    <<Some(3), Some(<<ENoName>>), None, None>>,
    <<None, Some(<<EOk, ENoEmail>>), None, None>>,
    <<None, Some(<<EBadGender>>), None, None>>,
    <<None, Some(<<EAgeMismatch>>), None, None>>,
    <<None, None, Some(JsonText("array", <<ENoEmail, NonDictEntry>>)), None>>,
    <<Some(0), None, None, None>>,
    <<None, Some(<<>>), Some(JsonText("bad", <<>>)), None>>,
    <<None, None, Some(JsonText("object", <<>>)), Some(EOk)>>,
    <<None, None, Some(JsonText("array", <<EOk>>)), None>>,
    <<None, None, Some(JsonText("empty", <<>>)), Some(EOk)>> }

\* (flight_id, seat_class) of the calls made with either value of confirm
FlightInputs ==
  { <<"F1", Business>>, <<"F2", Business>>, <<"F4", "Premium">>, <<"F5", Economy>>,
    <<"F9", Economy>> }

\* (flight_id, seat_class) of the calls made with confirm = false only, so
\* that the store holds reservations of one flight and class
QuoteInputs == { <<"F1", Economy>>, <<"F3", First>> }

CreateCalls ==
  { [op |-> "create",
     args |-> CreateArgs(fc[1], fc[2], confirm, p[1], p[2], p[3], p[4])] :
       fc \in FlightInputs, confirm \in BOOLEAN, p \in PassengerInputs }
  \cup
  { [op |-> "create",
     args |-> CreateArgs(fc[1], fc[2], FALSE, p[1], p[2], p[3], p[4])] :
       fc \in QuoteInputs, p \in PassengerInputs }

\* the values of uuid4().hex[:8] the model draws from
ReservationIds == 1..NumIds

Init ==
  /\ catalog = Dataset
  /\ reservations = [i \in {} |-> 0]
  /\ now = T1
  /\ call = NoCall
  /\ resp = NoCall

\* one call of the booking tool; gen_reservation_id draws an identifier on
\* the commit path only (tools.py 315)
CreateReservation ==
  \E c \in CreateCalls :
    \E dry \in {create_reservation(catalog, reservations, now, 1, c.args)} :
      \E rid \in (IF dry.resp.code = "RESERVATION_CONFIRMED"
                    THEN ReservationIds ELSE {1}) :
        \E r \in {IF rid = 1 THEN dry
                  ELSE create_reservation(catalog, reservations, now, rid, c.args)} :
          /\ call' = c
          /\ resp' = r.resp
          /\ reservations' = r.store
          /\ catalog' = DatasetAfter(catalog, r.resp)
          /\ UNCHANGED now

\* time passes between calls
Tick ==
  /\ now = T1
  /\ now' = T2
  /\ UNCHANGED <<catalog, reservations, call, resp>>

Next == CreateReservation \/ Tick

Spec == Init /\ [][Next]_vars

\* ----------------------------------------------------- booking properties
Booked == call.op = "create"
StructuralCodes ==
  {"RESERVATION_FLIGHT_NOT_FOUND", "RESERVATION_UNBOOKABLE",
   "RESERVATION_CLASS_NOT_AVAILABLE", "RESERVATION_NO_SEATS"}
\* the flight the call names: the first of the dataset with that identifier
Named == {i \in 1..Len(catalog) : catalog[i].flight_id = call.args.flight_id}
NamedFlight == catalog[CHOOSE i \in Named : \A j \in Named : i <= j]
\* the passenger entries and the passenger count of the call
CallParsed ==
  parse_passengers(call.args.passenger_count, call.args.passengers,
                   call.args.passengers_json, call.args.flat)
CallCount == CallParsed.count
\* the passenger slots of the call: its entries, padded with empty ones up
\* to the passenger count
CallSlots ==
  [i \in 1..Max(CallCount, Len(CallParsed.passenger_dicts)) |->
     IF i <= Len(CallParsed.passenger_dicts)
       THEN CallParsed.passenger_dicts[i] ELSE EmptyEntry]
PassesChecks ==
  /\ Booked
  /\ Named # {}
  /\ NamedFlight.status \notin {Cancelled, Landed}
  /\ InSeq(call.args.seat_class, NamedFlight.available_classes)
  /\ NamedFlight.seats_available >= CallCount
SlotLacksField ==
  \E i \in 1..Len(CallSlots) :
    CallSlots[i].dict /\ MissingFields(CallSlots[i], i - 1) # <<>>
StoreSize == Cardinality(DOMAIN reservations)

\* C1: a call with confirm = false leaves the reservation store exactly as it
\* was, whatever the call returns.
C1_PreviewKeepsStore ==
  [][(call'.op = "create" /\ ~call'.args.confirm)
       => reservations' = reservations]_vars

\* a preview with passenger issues, made while the store holds a reservation
C1_Witness ==
  /\ Booked /\ ~call.args.confirm
  /\ resp.code = "RESERVATION_PREVIEW" /\ resp.issues # <<>>
  /\ StoreSize > 0

\* C2 as stated: a confirm = true call that passes the four checks and has a
\* passenger slot lacking a required field returns
\* RESERVATION_VALIDATION_FAILED with ok = false.
C2_AsStated ==
  (PassesChecks /\ call.args.confirm /\ SlotLacksField) =>
    /\ ~resp.raised
    /\ resp.code = "RESERVATION_VALIDATION_FAILED"
    /\ ~resp.ok

\* C3 as stated: a RESERVATION_CONFIRMED call grows the store by exactly one
\* entry and replaces none.
C3_AsStated ==
  [][(now' = now /\ resp'.op = "create"
        /\ resp'.code = "RESERVATION_CONFIRMED")
       => /\ Cardinality(DOMAIN reservations') = StoreSize + 1
          /\ \A i \in DOMAIN reservations :
               reservations'[i] = reservations[i]]_vars

\* what the call would have returned with confirm = false, against the same
\* dataset, store and clock
PreviewOfCall ==
  create_reservation(catalog, reservations, now, 1,
                     [call.args EXCEPT !.confirm = FALSE]).resp

\* C4 as stated: when the preview of a call says ask_confirmation, the call
\* with confirm = true returns RESERVATION_CONFIRMED.
C4_AsStated ==
  (Booked /\ call.args.confirm /\ resp.op = "create"
     /\ PreviewOfCall.code = "RESERVATION_PREVIEW"
     /\ PreviewOfCall.next_action = "ask_confirmation")
    => resp.code = "RESERVATION_CONFIRMED"

\* C5: the structural checks run in the order flight found, flight bookable,
\* class available, seats sufficient; the call returns the code of the first
\* that fails, and RESERVATION_NO_SEATS carries no passenger issue.
C5_CheckOrder ==
  Booked =>
    /\ Named = {} => resp.code = "RESERVATION_FLIGHT_NOT_FOUND"
    /\ (Named # {} /\ NamedFlight.status \in {Cancelled, Landed})
         => resp.code = "RESERVATION_UNBOOKABLE"
    /\ (/\ Named # {} /\ NamedFlight.status \notin {Cancelled, Landed}
        /\ ~InSeq(call.args.seat_class, NamedFlight.available_classes))
         => resp.code = "RESERVATION_CLASS_NOT_AVAILABLE"
    /\ (/\ Named # {} /\ NamedFlight.status \notin {Cancelled, Landed}
        /\ InSeq(call.args.seat_class, NamedFlight.available_classes)
        /\ NamedFlight.seats_available < CallCount)
         => resp.code = "RESERVATION_NO_SEATS"
    /\ PassesChecks => resp.code \notin StructuralCodes
    /\ resp.code \in StructuralCodes
         => (~resp.ok /\ resp.issues = <<>> /\ resp.parse_errors = <<>>
             /\ resp.passengers = <<>>)

\* more passengers than seats, one of them incomplete: no seats, no issue
C5_Witness ==
  /\ Booked /\ resp.code = "RESERVATION_NO_SEATS"
  /\ SlotLacksField
  /\ resp.issues = <<>>

\* the seats of the flight in the dataset the machine started with
OriginalSeats(flight_id) ==
  LET first == CHOOSE i \in 1..Len(Dataset) :
                 /\ Dataset[i].flight_id = flight_id
                 /\ \A j \in 1..(i - 1) : Dataset[j].flight_id # flight_id
  IN Dataset[first].seats_available

RECURSIVE SumPassengers(_, _)
SumPassengers(ids, flight_id) ==
  IF ids = {} THEN 0
  ELSE LET i == CHOOSE x \in ids : TRUE
       IN (IF reservations[i].flight_id = flight_id
             THEN reservations[i].passenger_count ELSE 0)
          + SumPassengers(ids \ {i}, flight_id)

Searched == resp.op = "search"
ValidSearch == Searched /\ resp.code # "FLIGHT_SEARCH_INVALID_INPUT"
\* a city argument is given when it is a non-empty string
Given(o) == o # None /\ Val(o) # <<>>
BothCities == Given(call.args.departure_city) /\ Given(call.args.arrival_city)
SameCity(a, b) == normalize(a) = normalize(b)
RequestedPax ==
  IF call.args.passengers = None THEN 1 ELSE Val(call.args.passengers)
Returned == {resp.flights[i] : i \in 1..Len(resp.flights)}
InCatalog == {catalog[i] : i \in 1..Len(catalog)}
OnRoute(f) ==
  /\ SameCity(f.departure_city, Val(call.args.departure_city))
  /\ SameCity(f.arrival_city, Val(call.args.arrival_city))

\* C7: no returned flight is Cancelled or Landed; every returned flight has
\* seats_available >= the requested passenger count and, when a class
\* preference is given, offers that class; in strict and exploration mode.
C7_ResultsBookable ==
  Searched =>
    \A pf \in Returned :
      /\ pf.status \notin {Cancelled, Landed}
      /\ pf.seats_available >= RequestedPax
      /\ (call.args.class_preference # None
            => InSeq(Val(call.args.class_preference), pf.available_classes))

\* an exploration search with a passenger count and a class preference that
\* returns a flight while the dataset also holds an unbookable one
C7_Witness ==
  /\ Searched /\ ~BothCities
  /\ Returned # {}
  /\ RequestedPax >= 2
  /\ call.args.class_preference # None
  /\ \E f \in InCatalog : f.status \in {Cancelled, Landed}

\* C8: with both cities given, every returned flight departs from the
\* requested departure city and arrives at the requested arrival city, up to
\* case and whitespace.
C8_StrictRoute ==
  (Searched /\ BothCities) =>
    \A pf \in Returned :
      /\ SameCity(pf.from_city, Val(call.args.departure_city))
      /\ SameCity(pf.to_city, Val(call.args.arrival_city))

\* a strict search that returns a flight written differently from the
\* request, from a dataset that also holds a flight of the reverse pair
C8_Witness ==
  /\ Searched /\ BothCities
  /\ \E pf \in Returned : pf.from_city # Val(call.args.departure_city)
  /\ \E f \in InCatalog :
       /\ SameCity(f.departure_city, Val(call.args.arrival_city))
       /\ SameCity(f.arrival_city, Val(call.args.departure_city))

\* C9: a valid search returns FLIGHT_SEARCH_OK exactly when both cities are
\* given and the result is non-empty, FLIGHT_SEARCH_PARTIAL_OK exactly when
\* both are given and the result is empty, FLIGHT_SEARCH_EXPLORE exactly when
\* a city is absent; always with ok = true.
C9_SearchCodes ==
  ValidSearch =>
    /\ resp.ok
    /\ (resp.code = "FLIGHT_SEARCH_OK" <=> (BothCities /\ resp.flights # <<>>))
    /\ (resp.code = "FLIGHT_SEARCH_PARTIAL_OK"
          <=> (BothCities /\ resp.flights = <<>>))
    /\ (resp.code = "FLIGHT_SEARCH_EXPLORE" <=> ~BothCities)

\* both cities given, a date that matches no flight of the route
C9_Witness ==
  /\ ValidSearch /\ BothCities
  /\ resp.flights = <<>>
  /\ resp.criteria # None /\ Val(resp.criteria).departure_date # None
  /\ resp.facets.available_dates # <<>>

NoDate == resp.criteria # None /\ Val(resp.criteria).departure_date = None

\* C10 as stated: both cities and no date give FLIGHT_SEARCH_EXPLORE or
\* FLIGHT_SEARCH_PARTIAL_OK, with available_dates populated whenever the
\* dataset holds a flight of the pair.
C10_AsStated ==
  (ValidSearch /\ BothCities /\ NoDate) =>
    /\ resp.code \in {"FLIGHT_SEARCH_EXPLORE", "FLIGHT_SEARCH_PARTIAL_OK"}
    /\ ((\E f \in InCatalog : OnRoute(f)) => resp.facets.available_dates # <<>>)

\* C10 amended: both cities and no date give FLIGHT_SEARCH_OK when the result
\* is non-empty and FLIGHT_SEARCH_PARTIAL_OK when it is empty, never
\* FLIGHT_SEARCH_EXPLORE; available_dates is populated whenever the dataset
\* holds a flight of the pair.
C10_NoDateSearch ==
  (ValidSearch /\ BothCities /\ NoDate) =>
    /\ resp.code = (IF resp.flights # <<>> THEN "FLIGHT_SEARCH_OK"
                                           ELSE "FLIGHT_SEARCH_PARTIAL_OK")
    /\ ((\E f \in InCatalog : OnRoute(f)) => resp.facets.available_dates # <<>>)

\* both cities, no date, only an unbookable flight on the route: no result,
\* yet its date is offered
C10_Witness ==
  /\ ValidSearch /\ BothCities /\ NoDate
  /\ resp.flights = <<>>
  /\ \E f \in InCatalog : OnRoute(f)
  /\ resp.facets.available_dates # <<>>

\* ------------------------------------------------ properties of every call
FailureCodes ==
  StructuralCodes \cup {"RESERVATION_VALIDATION_FAILED",
                        "FLIGHT_SEARCH_INVALID_INPUT"}

\* C11 as stated: no call raises past the call boundary; every call returns
\* an envelope, also when a passenger entry is incomplete or is not a
\* key/value object, and every failure outcome has ok = false.
C11_AsStated ==
  resp.op \in {"create", "search"} =>
    /\ ~resp.raised
    /\ resp.code \in FailureCodes => ~resp.ok

\* ------------------------------------------------------ pricing properties
\* the seat class multipliers, in hundredths
ClaimedMultiplier(c) ==
  CASE c = Economy -> 100
    [] c = Business -> 160
    [] c = First -> 225

\* base price times multiplier, in cents rounded to the nearest cent
ClaimedUnitPrice(f, c) == RoundCents(f.price_usd * ClaimedMultiplier(c), 100)

\* what the call would have returned with confirm = true, against the same
\* dataset, store and clock
ConfirmOfCall ==
  create_reservation(catalog, reservations, now, 1,
                     [call.args EXCEPT !.confirm = TRUE]).resp

\* C12: for a call that passes the structural checks, the bill's unit price
\* is the flight's base price times the multiplier of the seat class
\* (Economy 1.00, Business 1.60, First 2.25), to the cent, and its total is
\* the unit price times the passenger count, which is at least 1; the bill of
\* a preview equals the bill of the confirm with the same arguments; and a
\* stored reservation's total_price_usd is the unit price times the number of
\* passengers stored in it.
C12_Pricing ==
  /\ (PassesChecks /\ resp.code \in {"RESERVATION_PREVIEW", "RESERVATION_CONFIRMED"})
       => /\ resp.bill # None
          /\ CallCount >= 1
          /\ Val(resp.bill).unit_price
               = ClaimedUnitPrice(NamedFlight, call.args.seat_class)
          /\ Val(resp.bill).passengers = CallCount
          /\ Val(resp.bill).total
               = ClaimedUnitPrice(NamedFlight, call.args.seat_class) * CallCount
          /\ Val(resp.bill).subtotal = Val(resp.bill).total
  /\ (PassesChecks /\ resp.code = "RESERVATION_PREVIEW"
        /\ ConfirmOfCall.code = "RESERVATION_CONFIRMED")
       => ConfirmOfCall.bill = resp.bill
  /\ (PassesChecks /\ resp.code = "RESERVATION_CONFIRMED")
       => /\ PreviewOfCall.bill = resp.bill
          /\ Val(resp.reservation).total_price_usd = Val(resp.bill).total
  /\ \A i \in DOMAIN reservations :
       reservations[i].total_price_usd
         = ClaimedUnitPrice(reservations[i].flight_details,
                            reservations[i].seat_class)
             * Len(reservations[i].passengers)

\* a confirmed Business booking for two passengers whose unit price is not a
\* whole number of cents before rounding
C12_Witness ==
  /\ PassesChecks /\ resp.code = "RESERVATION_CONFIRMED"
  /\ call.args.seat_class = Business
  /\ (NamedFlight.price_usd * ClaimedMultiplier(Business)) % 100 # 0
  /\ Len(Val(resp.reservation).passengers) = 2
  /\ Val(resp.bill).total = 31994

\* ------------------------------------------------------- facet properties
\* the flights of the dataset that match the cities the call gives
CityHits ==
  {f \in InCatalog :
     /\ Given(call.args.departure_city)
          => SameCity(f.departure_city, Val(call.args.departure_city))
     /\ Given(call.args.arrival_city)
          => SameCity(f.arrival_city, Val(call.args.arrival_city))}
Elements(s) == {s[i] : i \in 1..Len(s)}
AscendingStrs(s) == \A i \in 1..(Len(s) - 1) : StrLess(s[i], s[i + 1])
AscendingDates(s) ==
  \A i \in 1..(Len(s) - 1) :
    DateLess(ParseDateField(s[i]), ParseDateField(s[i + 1]))
\* the search with the same cities and no date, passenger count or class
CitiesOnlySearch ==
  get_available_flights(catalog, now,
    SearchArgs(call.args.departure_city, call.args.arrival_city,
               None, None, None, None, None))

\* C13: the facets of a valid search depend only on the dataset and the two
\* cities: they equal the facets of the search with the same cities and no
\* date, passenger count or class; available_destinations and
\* available_dates are the sorted distinct arrival cities and departure
\* dates of all flights that match the given cities; and every returned
\* flight has its arrival city and departure date in the facets.
C13_FacetsByCities ==
  ValidSearch =>
    /\ resp.facets = CitiesOnlySearch.facets
    /\ Elements(resp.facets.available_destinations)
         = {f.arrival_city : f \in CityHits}
    /\ AscendingStrs(resp.facets.available_destinations)
    /\ Elements(resp.facets.available_dates)
         = {IsoText(f.departure_date) : f \in CityHits}
    /\ AscendingDates(resp.facets.available_dates)
    /\ \A pf \in Returned :
         /\ pf.to_city \in Elements(resp.facets.available_destinations)
         /\ pf.departure_date \in Elements(resp.facets.available_dates)

\* a search with a date, a passenger count and a class that returns nothing
\* while the facets offer two dates and two destinations
C13_Witness ==
  /\ ValidSearch
  /\ Val(resp.criteria).departure_date # None
  /\ call.args.passengers # None /\ call.args.class_preference # None
  /\ resp.flights = <<>>
  /\ Len(resp.facets.available_dates) = 2
  /\ Len(resp.facets.available_destinations) = 2

\* -------------------------------------------------------- store properties
Stored == {reservations[i] : i \in DOMAIN reservations}

====
